---- MODULE Spec2Model ----
(***************************************************************************)
(* The gallery lightbox of script.js as a state machine: the gallery       *)
(* index (scanGallery / refreshGallery / the debounced MutationObserver),  *)
(* the viewer state (openAt / closeLB / update / next / prev), the         *)
(* preloader, the keyboard and click routing, and the collections modal    *)
(* that resolves a member back to a gallery position.                      *)
(*                                                                         *)
(* One action is one browser task: the event handler or timer callback     *)
(* together with the microtasks (MutationObserver callbacks) that run      *)
(* before the next task.                                                   *)
(***************************************************************************)
EXTENDS Integers, Sequences, FiniteSets, TLC

(* ------------------------------ bounds --------------------------------- *)
MaxTimers == 2      \* pending fade continuations
MaxScans == 2       \* rebuilds of the entry list after the initial scan
MaxIndex == 4       \* openAt is called with an index in -MaxIndex..MaxIndex
MaxBurst == 5       \* the burst counter saturates here
TimeStep == 50      \* granularity of the clock, in ms

(* ------------------------- program constants --------------------------- *)
DebounceWait == 150
FadeDelay == 100
Threshold == 40

Undefined == "undefined"

Min(a, b) == IF a < b THEN a ELSE b
Max(a, b) == IF a > b THEN a ELSE b
Range(s) == {s[k] : k \in 1..Len(s)}

\* JavaScript's % : the remainder takes the sign of the dividend.
\* Only used with b > 0 (b = 0 gives NaN and is handled by the callers).
JsRem(a, b) == IF a >= 0 THEN a % b ELSE -((-a) % b)

\* JavaScript's falsy test on a string-or-undefined value.
Falsy(v) == v = Undefined \/ v = ""

(* ------------------------------- page ---------------------------------- *)
\* The viewer surface and the collections surface are present on the page.
lb == TRUE
lbImage_present == TRUE
lbCaption_present == TRUE
galleryContainer == TRUE
collectionsListEl == TRUE
lbStage == TRUE

\* The .gallery-item elements that scripts attach to the container; an
\* attached element sits at its place in this order (1 before 2 before ...).
Elems == 1..4

\* The img children of each item, in document order, with the attributes
\* the code reads: src, data-large, alt, data-collections.
ImgsOf(e) ==
  CASE e = 1 -> << [src |-> "c.jpg", large |-> "C.jpg", alt |-> "Gamma",
                    collections |-> {"city"}],
                   [src |-> "d.jpg", large |-> "D.jpg", alt |-> "",
                    collections |-> {"city"}] >>
    [] e = 2 -> << >>
    [] e = 3 -> << [src |-> "a.jpg", large |-> "A.jpg", alt |-> "Alpha",
                    collections |-> {"nature"}] >>
    [] e = 4 -> << [src |-> "thumb.jpg", large |-> Undefined, alt |-> "",
                    collections |-> {"nature"}] >>

VARIABLES
  dom,            \* the container's .gallery-item children, in document order
  figures,        \* let figures
  images,         \* let images
  bound,          \* the elements whose _bound flag is set
  handlers,       \* per element, the index each registered open handler closes over
  current,        \* let current
  isOpen,         \* let isOpen
  lbHidden,       \* lb's aria-hidden attribute
  bodyOverflow,   \* document.body.style.overflow
  lbImage,        \* lbImage's src, alt and style.opacity
  lbCaption,      \* lbCaption.textContent
  fadeTimers,     \* pending setTimeout callbacks of update(), oldest first
  rescanTimers,   \* pending setTimeout callbacks of the debounced refresh
  preloads,       \* the preloadNeighbors calls of the last task
  modalHidden,    \* collectionModal's aria-hidden = 'true'
  modalItems,     \* the items the open modal's thumbnails close over (unreachable once it is hidden)
  op,             \* the last task: its name, index argument, branch taken and url
  scans,          \* number of rebuilds after the initial scan
  burst,          \* history: observer deliveries since the pending rescan was first armed
  burstRebuilds,  \* history: debounced rebuilds since the current burst began
  sinceMut,       \* history: time since the last observer delivery, capped at DebounceWait
  pointerSwipe,   \* let pointerSwipe
  pointerX        \* history: clientX of the latest pointerdown or pointermove event

gvars == <<dom, figures, images, bound, handlers>>
vvars == <<current, isOpen, lbHidden, bodyOverflow, lbImage, lbCaption, fadeTimers>>
movars == <<rescanTimers>>
hvars == <<burst, burstRebuilds, sinceMut>>
cvars == <<modalHidden, modalItems>>
pvars == <<pointerSwipe, pointerX>>
vars == <<dom, figures, images, bound, handlers, current, isOpen, lbHidden,
          bodyOverflow, lbImage, lbCaption, fadeTimers, rescanTimers, preloads,
          modalHidden, modalItems, op, scans, burst, burstRebuilds,
          sinceMut, pointerSwipe, pointerX>>

(* --------------------------- gallery index ----------------------------- *)
\* const large = img.dataset?.large || img.src
LargeOf(img) == IF Falsy(img.large) THEN img.src ELSE img.large

\* The default caption numbered from 0 instead of 1.
AltOfZeroBased(img, i) == IF Falsy(img.alt) THEN "Image " \o ToString(i) ELSE img.alt

\* const alt = img.alt || `Image ${i + 1}`
AltOf(img, i) == IF Falsy(img.alt) THEN "Image " \o ToString(i + 1) ELSE img.alt

\* The nodes.forEach of scanGallery: i is the 0-based index among all
\* matching items, acc the figures and images pushed so far.
RECURSIVE ScanNodes(_, _, _)
ScanNodes(nodes, i, acc) ==
  IF i >= Len(nodes) THEN acc
  ELSE LET fig == nodes[i + 1]
           imgs == ImgsOf(fig)
       IN IF Len(imgs) = 0 THEN ScanNodes(nodes, i + 1, acc)
          ELSE LET img == imgs[1]
                   thumb == img.src
                   large == LargeOf(img)
                   alt == AltOf(img, i)
               IN ScanNodes(nodes, i + 1,
                    [figures |-> Append(acc.figures, fig),
                     images |-> Append(acc.images,
                        [thumb |-> thumb, large |-> large, alt |-> alt, el |-> fig])])

\* The guard of the figures.forEach of scanGallery.
NeedsBinding(fig, bnd) == fig \notin bnd

\* The figures.forEach of scanGallery: binds the open handlers. i is 0-based.
\* mutated records that fig.tabIndex was written (an attribute mutation).
RECURSIVE BindFigures(_, _, _)
BindFigures(figs, i, acc) ==
  IF i >= Len(figs) THEN acc
  ELSE LET fig == figs[i + 1]
       IN IF NeedsBinding(fig, acc.bound)
          THEN BindFigures(figs, i + 1,
                 [bound |-> acc.bound \cup {fig},
                  handlers |-> [acc.handlers EXCEPT ![fig] = Append(@, i)],
                  mutated |-> TRUE])
          ELSE BindFigures(figs, i + 1, acc)

\* scanGallery on the container's current content.
ScanGallery(nodes, bnd, hnd) ==
  LET sc == IF galleryContainer THEN ScanNodes(nodes, 0, [figures |-> <<>>, images |-> <<>>])
            ELSE [figures |-> <<>>, images |-> <<>>]
      bd == BindFigures(sc.figures, 0, [bound |-> bnd, handlers |-> hnd, mutated |-> FALSE])
  IN [figures |-> sc.figures, images |-> sc.images, bound |-> bd.bound,
      handlers |-> bd.handlers, mutated |-> bd.mutated]

\* refreshGallery: clears the _bound flags of the current figures, then scans.
RefreshGallery(nodes, figs, bnd, hnd) ==
  ScanGallery(nodes, bnd \ Range(figs), hnd)

(* ------------------------------ debounce ------------------------------- *)
\* clearTimeout(t): t is the timer the debounced function set last.
ClearTimeout(timers) ==
  IF timers = <<>> THEN timers ELSE SubSeq(timers, 1, Len(timers) - 1)

\* The debounced call without its clearTimeout.
DebouncedNoClear(timers) == Append(timers, DebounceWait)

\* One call of the debounced refresh: clearTimeout(t); t = setTimeout(fn, wait).
Debounced(timers) == Append(ClearTimeout(timers), DebounceWait)

\* The gallery MutationObserver's callback ran in this task, with `timers`
\* pending when it ran.
MutationDelivered(timers) == rescanTimers' = Debounced(timers)

(* ------------------------------- viewer -------------------------------- *)
\* The viewer's mutable state as one value, so that handlers compose.
Viewer == [current |-> current, isOpen |-> isOpen, lbHidden |-> lbHidden,
           bodyOverflow |-> bodyOverflow, lbImage |-> lbImage,
           fadeTimers |-> fadeTimers]

SetViewer(v) ==
  /\ current' = v.current
  /\ isOpen' = v.isOpen
  /\ lbHidden' = v.lbHidden
  /\ bodyOverflow' = v.bodyOverflow
  /\ lbImage' = v.lbImage
  /\ fadeTimers' = v.fadeTimers

\* update(): hide the image and schedule the swap of images[current].
Update(v, imgs) ==
  IF Len(imgs) = 0 \/ ~lbImage_present THEN v
  ELSE [v EXCEPT !.lbImage.opacity = "0",
                 !.fadeTimers = Append(@, [remaining |-> FadeDelay,
                                           it |-> imgs[v.current + 1]])]

\* The resolution clamping into the list instead of wrapping round it.
OpenIndexClamped(index, n) == Max(0, Min(index, n - 1))

\* The index openAt resolves to.
OpenIndex(index, n) == JsRem(JsRem(index, n) + n, n)

\* openAt without the empty-list half of its guard: the index is NaN (-1 here).
OpenAtUnguarded(v, imgs, index) ==
  IF ~lb THEN v
  ELSE [Update([v EXCEPT !.current = IF Len(imgs) = 0 THEN -1
                                     ELSE OpenIndex(index, Len(imgs))], imgs)
          EXCEPT !.bodyOverflow = "hidden", !.lbHidden = "false", !.isOpen = TRUE]

\* openAt(index)
OpenAt(v, imgs, index) ==
  IF Len(imgs) = 0 \/ ~lb THEN v
  ELSE [Update([v EXCEPT !.current = OpenIndex(index, Len(imgs))], imgs)
          EXCEPT !.bodyOverflow = "hidden", !.lbHidden = "false", !.isOpen = TRUE]

\* closeLB()
CloseLB(v) ==
  IF ~lb THEN v
  ELSE [v EXCEPT !.lbHidden = "true", !.bodyOverflow = "", !.isOpen = FALSE]

\* The index next() moves to.
NextIndex(cur, n) == JsRem(cur + 1, n)

\* The index prev() moves to.
PrevIndex(cur, n) == JsRem(cur - 1 + n, n)

\* next() written as openAt(current + 1).
NextLBViaOpenAt(v, imgs) == OpenAt(v, imgs, v.current + 1)

\* next()
NextLB(v, imgs) ==
  IF Len(imgs) = 0 THEN v
  ELSE Update([v EXCEPT !.current = NextIndex(v.current, Len(imgs))], imgs)

\* prev()
PrevLB(v, imgs) ==
  IF Len(imgs) = 0 THEN v
  ELSE Update([v EXCEPT !.current = PrevIndex(v.current, Len(imgs))], imgs)

\* Number of fade continuations a call of update() adds.
WillSchedule(imgs) == IF Len(imgs) = 0 \/ ~lbImage_present THEN 0 ELSE 1

(* ------------------------------ preloader ------------------------------ *)
\* The [-1, 1].forEach of preloadNeighbors: with no entries the index is
\* NaN, images[NaN] is undefined and reading .large throws.
RECURSIVE PreloadOffsets(_, _, _, _)
PreloadOffsets(offsets, idx, imgs, acc) ==
  IF offsets = <<>> \/ acc.threw THEN acc
  ELSE IF Len(imgs) = 0 THEN [acc EXCEPT !.threw = TRUE]
  ELSE LET n == JsRem(idx + Head(offsets) + Len(imgs), Len(imgs))
       IN IF n < 0 \/ n >= Len(imgs) THEN [acc EXCEPT !.threw = TRUE]
          ELSE PreloadOffsets(Tail(offsets), idx, imgs,
                 [acc EXCEPT !.targets = Append(@, n),
                             !.urls = Append(@, imgs[n + 1].large)])

\* preloadNeighbors(idx), called from `site`.
PreloadNeighbors(site, idx, imgs) ==
  PreloadOffsets(<<-1, 1>>, idx, imgs,
    [site |-> site, idx |-> idx, n |-> Len(imgs), targets |-> <<>>,
     urls |-> <<>>, threw |-> FALSE])

(* ------------------------------- Init ---------------------------------- *)
\* The contents the container can have: the attached elements, in order.
Doms == UNION {{s \in [1..k -> Elems] : \A a, b \in 1..k : a < b => s[a] < s[b]}
               : k \in 0..Cardinality(Elems)}

NoOp(name) == [name |-> name, arg |-> 0, branch |-> "", url |-> ""]

\* The state after the script has run: the initial scan is done, before the
\* observers are created.
Init ==
  /\ dom \in Doms
  /\ LET sc == ScanGallery(dom, {}, [e \in Elems |-> <<>>])
     IN /\ figures = sc.figures
        /\ images = sc.images
        /\ bound = sc.bound
        /\ handlers = sc.handlers
  /\ current = 0
  /\ isOpen = FALSE
  /\ lbHidden = "true"
  /\ bodyOverflow = ""
  /\ lbImage = [src |-> "", alt |-> "", opacity |-> ""]
  /\ lbCaption = ""
  /\ fadeTimers = <<>>
  /\ rescanTimers = <<>>
  /\ preloads = <<>>
  /\ modalHidden = TRUE
  /\ modalItems = <<>>
  /\ op = NoOp("init")
  /\ scans = 0
  /\ pointerSwipe = [active |-> FALSE, startX |-> 0, dist |-> 0]
  /\ pointerX = 0
  /\ burst = 0
  /\ burstRebuilds = 0
  /\ sinceMut = DebounceWait

(* ------------------------------ collections ---------------------------- *)
\* The imgs that querySelectorAll('.gallery-item img') returns, in document
\* order, each with the item it sits in.
RECURSIVE VisibleImgs(_)
VisibleImgs(nodes) ==
  IF nodes = <<>> THEN <<>>
  ELSE [k \in 1..Len(ImgsOf(Head(nodes))) |->
          [img |-> ImgsOf(Head(nodes))[k], el |-> Head(nodes)]]
       \o VisibleImgs(Tail(nodes))

\* The url a collection member and openItemInLightbox compute for an img.
UrlOf(img) == IF Falsy(img.large) THEN img.src ELSE img.large

\* buildCollections()[name]: the members of one collection. i is 0-based.
RECURSIVE CollectionItems(_, _, _)
CollectionItems(imgs, i, name) ==
  IF i >= Len(imgs) THEN <<>>
  ELSE LET img == imgs[i + 1].img
           item == [thumb |-> img.src, url |-> UrlOf(img),
                    title |-> IF Falsy(img.alt) THEN "Image " \o ToString(i + 1)
                              ELSE img.alt,
                    el |-> imgs[i + 1].el]
       IN (IF name \in img.collections THEN <<item>> ELSE <<>>)
          \o CollectionItems(imgs, i + 1, name)

BuildCollections(nodes, name) == CollectionItems(VisibleImgs(nodes), 0, name)

CollectionNames == {"nature", "city"}

\* No collection of the page has more members than this.
MaxMembers == Cardinality({<<e, k>> : e \in Elems, k \in 1..2})

\* visibleImgs.findIndex(img => (img.dataset.large || img.src) === url); -1 if none.
FindIndex(imgs, url) ==
  LET hits == {k \in 1..Len(imgs) : UrlOf(imgs[k].img) = url}
  IN IF hits = {} THEN -1
     ELSE (CHOOSE k \in hits : \A j \in hits : k <= j) - 1

\* closeCollectionModalFn()
CloseCollectionModalFn(v) == [v EXCEPT !.bodyOverflow = ""]

(* ------------------------------- actions ------------------------------- *)
Quiet == preloads' = <<>>

\* window.galleryLightbox.openAt(i), called by a host script.
OpenAtCall(i) ==
  /\ Len(fadeTimers) + WillSchedule(images) <= MaxTimers
  /\ SetViewer(OpenAt(Viewer, images, i))
  /\ op' = [NoOp("openAt") EXCEPT !.arg = i]
  /\ Quiet
  /\ UNCHANGED <<gvars, movars, cvars, lbCaption, scans>>
  /\ UNCHANGED pvars

\* The open handlers of one item run in registration order.
RECURSIVE RunHandlers(_, _, _)
RunHandlers(hs, v, imgs) ==
  IF hs = <<>> THEN v ELSE RunHandlers(Tail(hs), OpenAt(v, imgs, Head(hs)), imgs)

\* A click (or Enter / Space) on an attached gallery item.
ClickItem(e) ==
  /\ e \in Range(dom)
  /\ handlers[e] # <<>>
  /\ Len(fadeTimers) + Len(handlers[e]) * WillSchedule(images) <= MaxTimers
  /\ SetViewer(RunHandlers(handlers[e], Viewer, images))
  /\ op' = [NoOp("click") EXCEPT !.arg = e]
  /\ Quiet
  /\ UNCHANGED <<gvars, movars, cvars, lbCaption, scans>>
  /\ UNCHANGED pvars

\* next(), from the API or the lbNext control.
NextCall ==
  /\ Len(fadeTimers) + WillSchedule(images) <= MaxTimers
  /\ SetViewer(NextLB(Viewer, images))
  /\ op' = NoOp("next")
  /\ Quiet
  /\ UNCHANGED <<gvars, movars, cvars, lbCaption, scans>>
  /\ UNCHANGED pvars

\* prev(), from the API or the lbPrev control.
PrevCall ==
  /\ Len(fadeTimers) + WillSchedule(images) <= MaxTimers
  /\ SetViewer(PrevLB(Viewer, images))
  /\ op' = NoOp("prev")
  /\ Quiet
  /\ UNCHANGED <<gvars, movars, cvars, lbCaption, scans>>
  /\ UNCHANGED pvars

\* closeLB(), from the API or the lbClose control.
CloseCall ==
  /\ SetViewer(CloseLB(Viewer))
  /\ op' = NoOp("close")
  /\ Quiet
  /\ UNCHANGED <<gvars, movars, cvars, lbCaption, scans>>
  /\ UNCHANGED pvars

\* A click whose target is the backdrop itself.
BackdropClick ==
  /\ SetViewer(CloseLB(Viewer))
  /\ op' = NoOp("backdrop")
  /\ Quiet
  /\ UNCHANGED <<gvars, movars, cvars, lbCaption, scans>>
  /\ UNCHANGED pvars

Keys == {"Escape", "ArrowRight", "ArrowLeft", "Enter"}

\* The listener without its isOpen guard.
LightboxKeyUnguarded(v, imgs, key) ==
  IF key = "Escape" THEN CloseLB(v)
  ELSE IF key = "ArrowRight" THEN NextLB(v, imgs)
  ELSE IF key = "ArrowLeft" THEN PrevLB(v, imgs)
  ELSE v

\* The lightbox's document keydown listener.
LightboxKey(v, imgs, key) ==
  IF ~v.isOpen THEN v
  ELSE IF key = "Escape" THEN CloseLB(v)
  ELSE IF key = "ArrowRight" THEN NextLB(v, imgs)
  ELSE IF key = "ArrowLeft" THEN PrevLB(v, imgs)
  ELSE v

\* Whether the collections' document keydown listener closes the modal.
CollectionsKeyCloses(key, hidden) == key = "Escape" /\ ~hidden

\* A keydown event on the document: the lightbox's listener, then the
\* collections' listener.
KeyDown(key) ==
  /\ Len(fadeTimers) + WillSchedule(images) <= MaxTimers
  /\ LET v1 == LightboxKey(Viewer, images, key)
         closes == collectionsListEl /\ CollectionsKeyCloses(key, modalHidden)
     IN /\ SetViewer(IF closes THEN CloseCollectionModalFn(v1) ELSE v1)
        /\ modalHidden' = (IF closes THEN TRUE ELSE modalHidden)
        /\ modalItems' = (IF closes THEN <<>> ELSE modalItems)
  /\ op' = [NoOp(key) EXCEPT !.branch =
               IF collectionsListEl /\ CollectionsKeyCloses(key, modalHidden)
               THEN "closeModal" ELSE ""]
  /\ Quiet
  /\ UNCHANGED <<gvars, movars, lbCaption, scans>>
  /\ UNCHANGED pvars

(* ---------------------------- pointer swipe ---------------------------- *)
\* The clientX values of the pointer events.
PointerXs == {0, Threshold, Threshold + 1}

\* pointerdown on lbStage at clientX x.
PointerDown(x) ==
  /\ lbStage
  /\ pointerSwipe' = [pointerSwipe EXCEPT !.active = TRUE, !.startX = x]
  /\ pointerX' = x
  /\ op' = NoOp("pointerdown")
  /\ Quiet
  /\ UNCHANGED <<gvars, vvars, movars, cvars, scans>>

\* pointermove on lbStage to clientX x.
PointerMove(x) ==
  /\ lbStage
  /\ pointerSwipe' = IF ~pointerSwipe.active THEN pointerSwipe
                     ELSE [pointerSwipe EXCEPT !.dist = x - pointerSwipe.startX]
  /\ pointerX' = x
  /\ op' = NoOp("pointermove")
  /\ Quiet
  /\ UNCHANGED <<gvars, vvars, movars, cvars, scans>>

\* What the pointerup listener does with the recorded distance.
SwipeBranch(ps) ==
  IF ~ps.active THEN "inactive"
  ELSE IF ps.dist > Threshold THEN "prev"
  ELSE IF ps.dist < -Threshold THEN "next"
  ELSE "none"

\* pointerup on lbStage, where the pointer is.
PointerUp ==
  /\ lbStage
  /\ Len(fadeTimers) + WillSchedule(images) <= MaxTimers
  /\ LET branch == SwipeBranch(pointerSwipe)
     IN /\ SetViewer(IF branch = "prev" THEN PrevLB(Viewer, images)
                     ELSE IF branch = "next" THEN NextLB(Viewer, images)
                     ELSE Viewer)
        /\ pointerSwipe' = IF branch = "inactive" THEN pointerSwipe
                           ELSE [pointerSwipe EXCEPT !.active = FALSE, !.dist = 0]
        /\ op' = [NoOp("pointerup") EXCEPT !.branch = branch]
  /\ Quiet
  /\ UNCHANGED <<gvars, movars, cvars, lbCaption, scans, pointerX>>

\* pointercancel on lbStage.
PointerCancel ==
  /\ lbStage
  /\ pointerSwipe' = [pointerSwipe EXCEPT !.active = FALSE, !.dist = 0]
  /\ op' = NoOp("pointercancel")
  /\ Quiet
  /\ UNCHANGED <<gvars, vvars, movars, cvars, scans, pointerX>>

(* ------------------------------- timers -------------------------------- *)
Elapse(r) == Max(0, r - TimeStep)

\* TimeStep ms pass; a due timer runs before more time passes.
Tick ==
  /\ fadeTimers # <<>> \/ rescanTimers # <<>>
  /\ \A k \in 1..Len(fadeTimers) : fadeTimers[k].remaining > 0
  /\ \A k \in 1..Len(rescanTimers) : rescanTimers[k] > 0
  /\ fadeTimers' = [k \in 1..Len(fadeTimers) |->
                      [fadeTimers[k] EXCEPT !.remaining = Elapse(@)]]
  /\ rescanTimers' = [k \in 1..Len(rescanTimers) |-> Elapse(rescanTimers[k])]
  /\ op' = NoOp("tick")
  /\ Quiet
  /\ UNCHANGED <<gvars, cvars, current, isOpen, lbHidden, bodyOverflow, lbImage,
                 lbCaption, scans>>
  /\ UNCHANGED pvars

\* What the fade continuation of update() writes to the viewer image.
Swap(it) == [src |-> it.large, alt |-> it.alt, opacity |-> "1"]

\* The oldest fade continuation runs; setting lbImage.src then runs the
\* image-source observer's callback.
FadeFire ==
  /\ fadeTimers # <<>>
  /\ Head(fadeTimers).remaining = 0
  /\ LET it == Head(fadeTimers).it
     IN /\ lbImage' = Swap(it)
        /\ lbCaption' = (IF lbCaption_present THEN it.alt ELSE lbCaption)
  /\ fadeTimers' = Tail(fadeTimers)
  /\ preloads' = << PreloadNeighbors("timer", current, images),
                    PreloadNeighbors("observer", current, images) >>
  /\ op' = NoOp("fade")
  /\ UNCHANGED <<gvars, movars, cvars, current, isOpen, lbHidden, bodyOverflow, scans>>
  /\ UNCHANGED pvars

\* The new gallery index after a rebuild r.
SetGallery(r) ==
  /\ figures' = r.figures
  /\ images' = r.images
  /\ bound' = r.bound
  /\ handlers' = r.handlers
  /\ scans' = scans + 1
  /\ preloads' = <<>>

\* The debounced refresh runs; the tabIndex writes of the rebinding are
\* delivered to the gallery observer at the end of the task.
RescanFire ==
  /\ rescanTimers # <<>>
  /\ Head(rescanTimers) = 0
  /\ scans < MaxScans
  /\ LET r == RefreshGallery(dom, figures, bound, handlers)
     IN /\ SetGallery(r)
        /\ IF r.mutated
           THEN MutationDelivered(Tail(rescanTimers))
           ELSE rescanTimers' = Tail(rescanTimers)
  /\ op' = NoOp("rescan")
  /\ UNCHANGED <<dom, vvars, lbCaption, cvars>>
  /\ UNCHANGED pvars

\* window.galleryLightbox.refresh(), called by a host script.
RefreshCall ==
  /\ scans < MaxScans
  /\ LET r == RefreshGallery(dom, figures, bound, handlers)
     IN /\ SetGallery(r)
        /\ IF r.mutated THEN MutationDelivered(rescanTimers) ELSE UNCHANGED movars
  /\ op' = NoOp("refresh")
  /\ UNCHANGED <<dom, vvars, lbCaption, cvars>>
  /\ UNCHANGED pvars

(* ---------------------------- page mutations --------------------------- *)
RemoveAt(s, p) == SubSeq(s, 1, p - 1) \o SubSeq(s, p + 1, Len(s))

\* A script removes the item at position p from the container.
RemoveItem(p) ==
  /\ p \in 1..Len(dom)
  /\ dom' = RemoveAt(dom, p)
  /\ MutationDelivered(rescanTimers)
  /\ op' = NoOp("remove")
  /\ Quiet
  /\ UNCHANGED <<figures, images, bound, handlers, vvars, lbCaption, cvars, scans>>
  /\ UNCHANGED pvars

\* s with e inserted at its place.
InsertAt(s, e) ==
  LET before == {k \in 1..Len(s) : s[k] < e}
  IN SubSeq(s, 1, Cardinality(before)) \o <<e>> \o SubSeq(s, Cardinality(before) + 1, Len(s))

\* A script inserts item e into the container.
AddItem(e) ==
  /\ e \notin Range(dom)
  /\ dom' = InsertAt(dom, e)
  /\ MutationDelivered(rescanTimers)
  /\ op' = NoOp("add")
  /\ Quiet
  /\ UNCHANGED <<figures, images, bound, handlers, vvars, lbCaption, cvars, scans>>
  /\ UNCHANGED pvars

\* keyup in the search input: every item's style.display is written.
SearchKeyup ==
  /\ Len(dom) > 0
  /\ MutationDelivered(rescanTimers)
  /\ op' = NoOp("search")
  /\ Quiet
  /\ UNCHANGED <<gvars, vvars, lbCaption, cvars, scans>>
  /\ UNCHANGED pvars

\* click on showAllBtn: showAll() writes every item's style.display and
\* refreshes, then the second listener writes style.display again.
ShowAllClick ==
  /\ scans < MaxScans
  /\ LET r == RefreshGallery(dom, figures, bound, handlers)
     IN /\ SetGallery(r)
        /\ IF Len(dom) > 0 \/ r.mutated
           THEN MutationDelivered(rescanTimers) ELSE UNCHANGED movars
  /\ op' = NoOp("showAll")
  /\ UNCHANGED <<dom, vvars, lbCaption, cvars>>
  /\ UNCHANGED pvars

(* -------------------------- collections modal -------------------------- *)
\* click on a collection card: openCollectionModal(name, items).
OpenCollectionModal(name) ==
  /\ collectionsListEl
  /\ BuildCollections(dom, name) # <<>>
  /\ modalItems' = BuildCollections(dom, name)
  /\ modalHidden' = FALSE
  /\ bodyOverflow' = "hidden"
  /\ op' = NoOp("openModal")
  /\ Quiet
  /\ UNCHANGED <<gvars, movars, current, isOpen, lbHidden, lbImage, lbCaption,
                 fadeTimers, scans>>
  /\ UNCHANGED pvars

\* click on a close control of the modal or on its backdrop.
CloseCollectionModal ==
  /\ ~modalHidden
  /\ modalHidden' = TRUE
  /\ bodyOverflow' = CloseCollectionModalFn(Viewer).bodyOverflow
  /\ op' = NoOp("closeModal")
  /\ Quiet
  /\ modalItems' = <<>>
  /\ UNCHANGED <<gvars, movars, current, isOpen, lbHidden, lbImage,
                 lbCaption, fadeTimers, scans>>
  /\ UNCHANGED pvars

\* The index openItemInLightbox passes to openAt for a member url.
ResolveIndex(nodes, url) == FindIndex(VisibleImgs(nodes), url)

\* click on the k-th thumbnail of the modal: openItemInLightbox(item).
OpenItemInLightbox(k) ==
  /\ ~modalHidden
  /\ k \in 1..Len(modalItems)
  /\ Len(fadeTimers) + 1 <= MaxTimers
  /\ LET url == modalItems[k].url
         idx == ResolveIndex(dom, url)
     IN IF idx # -1
        THEN /\ SetViewer(CloseCollectionModalFn(OpenAt(Viewer, images, idx)))
             /\ op' = [name |-> "openItem", arg |-> idx, branch |-> "openAt",
                       url |-> url]
             /\ Quiet
             /\ UNCHANGED <<gvars, movars, scans>>
        ELSE /\ scans < MaxScans
             /\ LET r == RefreshGallery(dom, figures, bound, handlers)
                    idx2 == ResolveIndex(dom, url)
                IN /\ SetGallery(r)
                   /\ IF r.mutated THEN MutationDelivered(rescanTimers)
                      ELSE UNCHANGED movars
                   /\ IF idx2 # -1
                      THEN /\ SetViewer(CloseCollectionModalFn(
                                          OpenAt(Viewer, r.images, idx2)))
                           /\ op' = [name |-> "openItem", arg |-> idx2,
                                     branch |-> "refreshOpenAt", url |-> url]
                      ELSE /\ SetViewer(CloseCollectionModalFn(Viewer))
                           /\ op' = [name |-> "openItem", arg |-> idx2,
                                     branch |-> "windowOpen", url |-> url]
             /\ UNCHANGED dom
  /\ modalHidden' = TRUE
  /\ modalItems' = <<>>
  /\ UNCHANGED lbCaption
  /\ UNCHANGED pvars

(* ----------------------------- specification --------------------------- *)
\* Whether the task just taken ended with the gallery observer's callback:
\* the container's subtree was mutated by the task.
Delivered ==
  \/ op'.name \in {"remove", "add", "search"}
  \/ op'.name = "showAll" /\ Len(dom) > 0
  \/ op'.name \in {"refresh", "rescan"} /\ figures' # <<>>
  \/ op'.name = "openItem" /\ op'.branch # "openAt" /\ figures' # <<>>

\* The history variables of the debounce, kept beside a task.
Track ==
  LET pending == IF op'.name = "rescan" THEN Tail(rescanTimers) ELSE rescanTimers
  IN /\ burst' = IF ~Delivered THEN burst
                 ELSE IF pending = <<>> THEN 1 ELSE Min(burst + 1, MaxBurst)
     /\ burstRebuilds' = IF Delivered /\ pending = <<>> THEN 0
                         ELSE IF op'.name = "rescan" THEN burstRebuilds + 1
                         ELSE burstRebuilds
     /\ sinceMut' = IF Delivered THEN 0
                    ELSE IF op'.name = "tick" THEN Min(DebounceWait, sinceMut + TimeStep)
                    ELSE sinceMut

Untracked == UNCHANGED hvars

\* Every task of the page.
Next ==
  \/ (\E i \in -MaxIndex..MaxIndex : OpenAtCall(i)) /\ Track
  \/ (\E e \in Elems : ClickItem(e)) /\ Track
  \/ NextCall /\ Track
  \/ PrevCall /\ Track
  \/ CloseCall /\ Track
  \/ BackdropClick /\ Track
  \/ (\E key \in Keys : KeyDown(key)) /\ Track
  \/ Tick /\ Track
  \/ FadeFire /\ Track
  \/ RescanFire /\ Track
  \/ RefreshCall /\ Track
  \/ (\E p \in 1..Cardinality(Elems) : RemoveItem(p)) /\ Track
  \/ (\E e \in Elems : AddItem(e)) /\ Track
  \/ SearchKeyup /\ Track
  \/ ShowAllClick /\ Track
  \/ (\E name \in CollectionNames : OpenCollectionModal(name)) /\ Track
  \/ CloseCollectionModal /\ Track
  \/ (\E k \in 1..MaxMembers : OpenItemInLightbox(k)) /\ Track
  \/ (\E x \in PointerXs : PointerDown(x)) /\ Track
  \/ (\E x \in PointerXs : PointerMove(x)) /\ Track
  \/ PointerUp /\ Track
  \/ PointerCancel /\ Track

Spec == Init /\ [][Next]_vars

\* The gallery index and its debounced re-scan, with the viewer at rest.
GalleryNext ==
  \/ (\E p \in 1..Cardinality(Elems) : RemoveItem(p)) /\ Track
  \/ (\E e \in Elems : AddItem(e)) /\ Track
  \/ SearchKeyup /\ Track
  \/ ShowAllClick /\ Track
  \/ RefreshCall /\ Track
  \/ RescanFire /\ Track
  \/ Tick /\ Track

SpecGallery == Init /\ [][GalleryNext]_vars

\* The viewer and the collections modal over the gallery index of any
\* page, between re-scans.
ViewerNext ==
  \/ (\E i \in -MaxIndex..MaxIndex : OpenAtCall(i)) /\ Untracked
  \/ (\E e \in Elems : ClickItem(e)) /\ Untracked
  \/ NextCall /\ Untracked
  \/ PrevCall /\ Untracked
  \/ CloseCall /\ Untracked
  \/ BackdropClick /\ Untracked
  \/ (\E key \in Keys : KeyDown(key)) /\ Untracked
  \/ (\E name \in CollectionNames : OpenCollectionModal(name)) /\ Untracked
  \/ CloseCollectionModal /\ Untracked
  \/ Tick /\ Untracked
  \/ FadeFire /\ Untracked

SpecViewer == Init /\ [][ViewerNext]_vars

\* The page with every item attached.
InitFull == Init /\ Len(dom) = Cardinality(Elems)

\* The viewer while items are removed and the debounced re-scan follows.
RescanNext ==
  \/ (\E i \in -MaxIndex..MaxIndex : OpenAtCall(i)) /\ Untracked
  \/ NextCall /\ Untracked
  \/ PrevCall /\ Untracked
  \/ Tick /\ Untracked
  \/ FadeFire /\ Untracked
  \/ RescanFire /\ Untracked
  \/ (\E p \in 1..Cardinality(Elems) : RemoveItem(p)) /\ Untracked

SpecRescan == InitFull /\ [][RescanNext]_vars

\* The collections modal resolving its members back to the viewer.
CollectionsNext ==
  \/ (\E name \in CollectionNames : OpenCollectionModal(name)) /\ Untracked
  \/ CloseCollectionModal /\ Untracked
  \/ (\E k \in 1..MaxMembers : OpenItemInLightbox(k)) /\ Untracked
  \/ Tick /\ Untracked
  \/ FadeFire /\ Untracked
  \/ RescanFire /\ Untracked
  \/ (\E p \in 1..Cardinality(Elems) : RemoveItem(p)) /\ Untracked

SpecCollections == InitFull /\ [][CollectionsNext]_vars

\* The pointer swipe on the stage of a viewer that can be opened.
SwipeNext ==
  \/ (\E i \in -MaxIndex..MaxIndex : OpenAtCall(i)) /\ Untracked
  \/ (\E x \in PointerXs : PointerDown(x)) /\ Untracked
  \/ (\E x \in PointerXs : PointerMove(x)) /\ Untracked
  \/ PointerUp /\ Untracked
  \/ PointerCancel /\ Untracked
  \/ Tick /\ Untracked
  \/ FadeFire /\ Untracked

SpecSwipe == InitFull /\ [][SwipeNext]_vars

\* Every way the viewer is opened, closed and navigated, with the timers and
\* the debounced re-scan.
OpenCloseNext ==
  \/ (\E i \in -MaxIndex..MaxIndex : OpenAtCall(i)) /\ Untracked
  \/ (\E e \in Elems : ClickItem(e)) /\ Untracked
  \/ NextCall /\ Untracked
  \/ PrevCall /\ Untracked
  \/ CloseCall /\ Untracked
  \/ BackdropClick /\ Untracked
  \/ (\E key \in Keys : KeyDown(key)) /\ Untracked
  \/ (\E x \in PointerXs : PointerDown(x)) /\ Untracked
  \/ (\E x \in PointerXs : PointerMove(x)) /\ Untracked
  \/ PointerUp /\ Untracked
  \/ PointerCancel /\ Untracked
  \/ Tick /\ Untracked
  \/ FadeFire /\ Untracked
  \/ RescanFire /\ Untracked
  \/ (\E p \in 1..Cardinality(Elems) : RemoveItem(p)) /\ Untracked

\* The page with a single item, which has one image and a large attribute.
InitOne ==
  /\ Init
  /\ \E e \in Elems : /\ dom = <<e>>
                      /\ Len(ImgsOf(e)) = 1
                      /\ ~Falsy(ImgsOf(e)[1].large)

SpecOpenClose == InitOne /\ [][OpenCloseNext]_vars

(* ------------------------------- claims -------------------------------- *)
N == Len(images)

\* C1: whenever the viewer is open, 0 <= current < N for the entry list in
\* force, also after a re-scan replaced the list with a shorter or empty one.
C1_CurrentInRange == isOpen => (0 <= current /\ current < N)

\* C2: openAt, next and prev on an empty entry list are no-ops: isOpen,
\* current and the displayed image and caption are unchanged, and no fade
\* continuation or preload is scheduled.
C2_EmptyListNoOp ==
  [][(N = 0 /\ op'.name \in {"openAt", "next", "prev"})
       => /\ isOpen' = isOpen
          /\ current' = current
          /\ lbImage' = lbImage
          /\ lbCaption' = lbCaption
          /\ fadeTimers' = fadeTimers
          /\ preloads' = <<>>]_vars

\* openAt(-1) was just called on an empty entry list.
C2_Witness == N = 0 /\ op.name = "openAt" /\ op.arg = -1 /\ ~isOpen

\* C3: the re-scan is debounced. A container mutation never rebuilds the
\* entry list in its own task; it leaves exactly one pending rebuild, set to
\* the full delay (the earlier one is cancelled). The pending rebuild runs
\* only once the full delay has passed since the last mutation, and a burst
\* of mutations that each arrive while a rebuild is pending gets exactly one
\* rebuild.
C3_Debounced ==
  [][/\ op'.name \in {"remove", "add", "search"}
          => /\ scans' = scans
             /\ images' = images
             /\ rescanTimers' = <<DebounceWait>>
     /\ op'.name = "rescan"
          => /\ sinceMut >= DebounceWait
             /\ burst >= 1
             /\ burstRebuilds = 0
             /\ scans' = scans + 1
     /\ Len(rescanTimers') <= 1
     /\ burstRebuilds' <= 1
     /\ rescanTimers' # <<>> => burstRebuilds' = 0
     /\ (rescanTimers' = <<>> /\ burst' >= 1) => burstRebuilds' = 1]_vars

\* Five or more mutations arrived while the rebuild was pending, and the
\* one rebuild has run.
C3_Witness ==
  op.name = "rescan" /\ burst >= 5 /\ burstRebuilds = 1 /\ rescanTimers = <<>>

\* C4: after any sequence of scans, every item of the entry list carries
\* exactly one open handler, and it calls openAt with the item's position in
\* the current entry list.
C4_OneHandler == \A k \in 1..Len(figures) : handlers[figures[k]] = <<k - 1>>

\* C5: when openItemInLightbox(item) takes an openAt branch, the viewer is
\* open on the entry whose full URL is item.url.
C5_OpensExactUrl ==
  (op.name = "openItem" /\ op.branch \in {"openAt", "refreshOpenAt"})
    => /\ isOpen
       /\ current >= 0 /\ current < N
       /\ images[current + 1].large = op.url

\* C6: with a non-empty entry list and the viewer surface present,
\* openAt(i) for any integer i leaves current = i mod N (the mathematical
\* modulus, in 0..N-1), the viewer open, and a display update for that entry
\* under way.
C6_OpenAtResolves ==
  (op.name = "openAt" /\ N > 0 /\ lb)
    => /\ current = op.arg % N
       /\ isOpen
       /\ lbImage.opacity = "0"
       /\ fadeTimers # <<>>
       /\ fadeTimers[Len(fadeTimers)] =
            [remaining |-> FadeDelay, it |-> images[(op.arg % N) + 1]]

\* openAt(-1) was just called on three entries and resolved to the last.
C6_Witness == op.name = "openAt" /\ op.arg = -1 /\ N = 3 /\ current = 2 /\ isOpen

\* The index after k calls of next() from cur.
RECURSIVE IterNext(_, _, _)
IterNext(cur, n, k) == IF k = 0 THEN cur ELSE IterNext(NextIndex(cur, n), n, k - 1)

\* C7: navigation is cyclic. For N > 0 and the index the viewer is at:
\* N calls of next() lead back to it, prev() after a next() leads back to it,
\* next() after a prev() leads back to it, and prev() right after openAt(0)
\* gives N - 1.
C7_Cyclic ==
  [][N > 0 =>
       /\ op'.name \in {"next", "prev"} => IterNext(current, N, N) = current
       /\ op'.name = "next" => PrevIndex(current', N) = current
       /\ op'.name = "prev" => NextIndex(current', N) = current
       /\ (op'.name = "prev" /\ op.name = "openAt" /\ op.arg = 0)
            => current' = N - 1]_vars

\* C8: every call of preloadNeighbors(idx) issues exactly two fetches, for
\* the entries at (idx - 1) mod N and (idx + 1) mod N.
C8_TwoFetches ==
  \A k \in 1..Len(preloads) :
    /\ ~preloads[k].threw
    /\ Len(preloads[k].urls) = 2
    /\ preloads[k].n > 0 =>
         preloads[k].targets = << (preloads[k].idx - 1) % preloads[k].n,
                                  (preloads[k].idx + 1) % preloads[k].n >>

\* The positions in the container of the items that have an image child.
WithImage == {p \in 1..Len(dom) : ImgsOf(dom[p]) # <<>>}

\* The task just taken rebuilt the entry list from the container as it is.
JustScanned == op.name \in {"init", "refresh", "rescan", "showAll"}

\* C9: a scan yields one entry per item that has an image child, in
\* document order; the entry takes its thumbnail from the first image's
\* source, its full URL from the large attribute if there is one and from
\* the source otherwise, and its caption from the alt text if there is one
\* and otherwise "Image p" with p the item's 1-based place among the
\* container's items. The entry list and the element list always have equal
\* length and agree index by index.
C9_ScanEntries ==
  /\ Len(figures) = Len(images)
  /\ \A k \in 1..Len(images) : images[k].el = figures[k]
  /\ JustScanned =>
       /\ Len(images) = Cardinality(WithImage)
       /\ \A k \in 1..Len(images) :
            \E p \in WithImage :
              /\ Cardinality({q \in WithImage : q < p}) = k - 1
              /\ figures[k] = dom[p]
              /\ LET img == ImgsOf(dom[p])[1]
                 IN /\ images[k].thumb = img.src
                    /\ images[k].large =
                         (IF img.large = Undefined THEN img.src ELSE img.large)
                    /\ images[k].alt =
                         (IF img.alt = "" THEN "Image " \o ToString(p) ELSE img.alt)

\* A debounced rebuild just scanned three items: the first has no image and
\* is skipped, the third has neither a large attribute nor alt text.
C9_Witness ==
  /\ op.name = "rescan"
  /\ dom = <<2, 3, 4>>
  /\ Len(images) = 2
  /\ images[2].large = "thumb.jpg"
  /\ images[2].alt = "Image 3"

\* What a key event must leave alone in the viewer while it is not open.
KeyLeavesViewer ==
  /\ isOpen' = isOpen
  /\ current' = current
  /\ lbImage' = lbImage
  /\ lbCaption' = lbCaption
  /\ lbHidden' = lbHidden
  /\ fadeTimers' = fadeTimers

\* C10 as stated: while the viewer is not open, Escape, ArrowRight and
\* ArrowLeft leave isOpen, current, the displayed image and caption, the
\* viewer's hidden attribute and the page scroll lock unchanged and schedule
\* no fade continuation.
C10_KeyNoOp ==
  [][(~isOpen /\ op'.name \in {"Escape", "ArrowRight", "ArrowLeft"})
       => (KeyLeavesViewer /\ bodyOverflow' = bodyOverflow)]_vars

\* C10 as amended: while the viewer is not open, the three keys leave the
\* viewer unchanged and schedule no fade continuation; the page scroll lock
\* is unchanged too, except that Escape with the collections modal open
\* closes that modal, which releases the lock.
C10_KeyNoOpUnlessModal ==
  [][(~isOpen /\ op'.name \in {"Escape", "ArrowRight", "ArrowLeft"})
       => /\ KeyLeavesViewer
          /\ IF op'.name = "Escape" /\ ~modalHidden
             THEN bodyOverflow' = "" /\ modalHidden'
             ELSE bodyOverflow' = bodyOverflow /\ modalHidden' = modalHidden]_vars

\* Escape was just pressed with the viewer closed and the modal open.
C10_Witness ==
  op.name = "Escape" /\ op.branch = "closeModal" /\ ~isOpen /\ bodyOverflow = ""

\* The tasks that call openAt.
Opening == {"openAt", "click", "openItem"}

\* C11: the open flag follows the documented state machine. It goes from
\* false to true only in a task that calls openAt on a non-empty entry list;
\* it goes from true to false only through close, a backdrop click or Escape
\* while open, each of which does close; every other task (next/prev, arrow
\* keys, swipes, re-scans, mutations, timer callbacks) leaves it unchanged;
\* and openAt while open leaves the viewer open and shown.
C11_OpenStateMachine ==
  [][/\ (~isOpen /\ isOpen') => (op'.name \in Opening /\ N > 0)
     /\ (isOpen /\ ~isOpen') => op'.name \in {"close", "backdrop", "Escape"}
     /\ (isOpen /\ op'.name \in {"close", "backdrop", "Escape"}) => ~isOpen'
     /\ op'.name \notin (Opening \cup {"close", "backdrop", "Escape"})
          => isOpen' = isOpen
     /\ (isOpen /\ op'.name \in Opening)
          => (isOpen' /\ lbHidden' = lbHidden)]_vars

\* The viewer stayed open across a re-scan and a swipe to the left.
C11_Witness ==
  /\ op.name = "pointerup"
  /\ op.branch = "next"
  /\ isOpen
  /\ scans >= 1

\* C12: display updates keep the order hide, swap, reveal. The viewer
\* image's source, alt text and caption change only in the fade
\* continuation; the continuation writes them only while the image is hidden
\* (opacity 0); and the image becomes visible (opacity 1) only in a
\* continuation, with the source that continuation has just set. This is
\* required for every interleaving of openAt/next/prev with pending
\* continuations.
C12_HideSwapReveal ==
  [][/\ (lbImage'.src # lbImage.src \/ lbImage'.alt # lbImage.alt
           \/ lbCaption' # lbCaption)
          => op'.name = "fade"
     /\ op'.name = "fade" => lbImage.opacity = "0"
     /\ (lbImage'.opacity = "1" /\ lbImage.opacity # "1")
          => (op'.name = "fade" /\ lbImage'.src = Head(fadeTimers).it.large)]_vars

\* C13: on pointer-up of an active drag the viewer performs prev iff the
\* displacement from the most recent pointer-down X to the pointer's last X
\* is greater than 40, next iff it is less than -40, and nothing otherwise;
\* pointer-cancel never navigates; and pointer-up and pointer-cancel leave
\* the drag inactive with no recorded distance.
C13_SwipeThreshold ==
  [][/\ (op'.name = "pointerup" /\ pointerSwipe.active)
          => LET d == pointerX - pointerSwipe.startX
             IN /\ (d > 40) <=> (op'.branch = "prev")
                /\ (d < -40) <=> (op'.branch = "next")
                /\ op'.branch = "prev" =>
                     (current' = PrevLB(Viewer, images).current
                        /\ fadeTimers' = PrevLB(Viewer, images).fadeTimers)
                /\ op'.branch = "next" =>
                     (current' = NextLB(Viewer, images).current
                        /\ fadeTimers' = NextLB(Viewer, images).fadeTimers)
                /\ op'.branch = "none" =>
                     (current' = current /\ fadeTimers' = fadeTimers)
     /\ op'.name = "pointercancel"
          => (current' = current /\ fadeTimers' = fadeTimers)
     /\ op'.name \in {"pointerup", "pointercancel"}
          => (~pointerSwipe'.active /\ pointerSwipe'.dist = 0)]_vars

\* C14: no deferred callback reads outside the entry list. In every call
\* of preloadNeighbors made by a fade continuation or by the image-source
\* observer, the list in force is not empty, the index passed (current) and
\* the two neighbour indices computed from it are positions of that list,
\* and no read fails.
C14_CallbacksInRange ==
  \A k \in 1..Len(preloads) :
    LET c == preloads[k]
    IN /\ c.idx >= 0 /\ c.idx < c.n
       /\ ~c.threw
       /\ \A j \in 1..Len(c.targets) : c.targets[j] >= 0 /\ c.targets[j] < c.n

\* C15: the display converges to the viewer state. Whenever the viewer is
\* open and no fade continuation is pending, current is a position of the
\* entry list and the displayed source and caption are that entry's full URL
\* and caption, also after a re-scan replaced the list while the viewer
\* stayed open.
C15_DisplayConverges ==
  (isOpen /\ fadeTimers = <<>>)
    => /\ current >= 0 /\ current < N
       /\ lbImage.src = images[current + 1].large
       /\ lbCaption = images[current + 1].alt

\* C16: re-scanning reaches quiescence. A rebuild of the entry list, by the
\* debounced re-scan or by refresh(), does not itself cause a mutation of the
\* watched container that schedules another rebuild: the debounced re-scan
\* leaves no rebuild pending, and refresh() leaves the pending rebuilds as
\* they were.
C16_RescanQuiesces ==
  [][/\ op'.name = "rescan" => rescanTimers' = Tail(rescanTimers)
     /\ op'.name = "refresh" => rescanTimers' = rescanTimers]_vars

====
